---- MODULE Spec2Model ----
(***************************************************************************)
(* Model of scripts/export_audit_logs.py: one run of main(), which checks  *)
(* the cf CLI, logs in, exports the audit events to a CSV file and builds  *)
(* the one-row security summary from that file.                            *)
(*                                                                         *)
(* Strings are sequences of one-character strings, so that the substring   *)
(* tests of the script (str.contains) are computed and not assumed.        *)
(* A CSV file is a sequence of lines, a line a sequence of fields.         *)
(***************************************************************************)
EXTENDS Integers, Sequences, FiniteSets, TLC

(* ------------------------------ bounds --------------------------------- *)
\* longest 'resources' list the event source returns
MaxEvents == 2
\* longest delimited-text payload (in lines) the event source returns
MaxTextLines == 10

(* ------------------------------ strings -------------------------------- *)
EmptyStr == <<>>
S_sep == <<"s", "e", "p", "=">>
S_No_events_found == <<"N", "o", " ", "e", "v", "e", "n", "t", "s", " ", "f", "o", "u", "n", "d">>
S_LoginFailure == <<"L", "o", "g", "i", "n", "F", "a", "i", "l", "u", "r", "e">>
S_Unauthorized == <<"U", "n", "a", "u", "t", "h", "o", "r", "i", "z", "e", "d">>
S_Delete == <<"D", "e", "l", "e", "t", "e">>
S_Update == <<"U", "p", "d", "a", "t", "e">>
S_Create == <<"C", "r", "e", "a", "t", "e">>
S_type == <<"t", "y", "p", "e">>
S_created_at == <<"c", "r", "e", "a", "t", "e", "d", "_", "a", "t">>
S_target_name == <<"t", "a", "r", "g", "e", "t", "_", "n", "a", "m", "e">>
S_target_type == <<"t", "a", "r", "g", "e", "t", "_", "t", "y", "p", "e">>
S_actor_name == <<"a", "c", "t", "o", "r", "_", "n", "a", "m", "e">>
S_actor_type == <<"a", "c", "t", "o", "r", "_", "t", "y", "p", "e">>
S_space_name == <<"s", "p", "a", "c", "e", "_", "n", "a", "m", "e">>
S_org_name == <<"o", "r", "g", "_", "n", "a", "m", "e">>
S_Unnamed == <<"U", "n", "n", "a", "m", "e", "d", ":", " ">>
S_NA == <<"N", "A">>
S_null == <<"n", "u", "l", "l">>

\* sample field values of the events the source returns
T_LoginFailure == <<"a", "u", "d", "i", "t", ".", "a", "p", "p", ".", "L", "o", "g", "i", "n", "F", "a", "i", "l", "u", "r", "e">>
T_UnauthorizedDelete == <<"a", "u", "d", "i", "t", ".", "s", "p", "a", "c", "e", ".", "U", "n", "a", "u", "t", "h", "o", "r", "i", "z", "e", "d", "D", "e", "l", "e", "t", "e">>
T_update == <<"a", "u", "d", "i", "t", ".", "a", "p", "p", ".", "u", "p", "d", "a", "t", "e">>
T_start == <<"a", "u", "d", "i", "t", ".", "a", "p", "p", ".", "s", "t", "a", "r", "t">>
V_time == <<"2", "0", "2", "4", "-", "0", "5", "-", "0", "1", "T", "0", "0", ":", "0", "0", ":", "0", "0", "Z">>
V_app == <<"a", "p", "p">>
V_user == <<"u", "s", "e", "r">>
V_dev == <<"d", "e", "v">>
V_epa == <<"e", "p", "a">>
V_sentinel_name == <<"N", "o", " ", "e", "v", "e", "n", "t", "s", " ", "f", "o", "u", "n", "d", " ", "h", "e", "r", "e">>

UpperChars == <<"A","B","C","D","E","F","G","H","I","J","K","L","M","N","O","P","Q","R","S","T","U","V","W","X","Y","Z">>
LowerChars == <<"a","b","c","d","e","f","g","h","i","j","k","l","m","n","o","p","q","r","s","t","u","v","w","x","y","z">>
DigitChars == <<"0","1","2","3","4","5","6","7","8","9">>

\* case folding of one character (re.IGNORECASE of str.contains(case=False))
LowerChar(c) ==
  IF \E i \in 1..Len(UpperChars) : UpperChars[i] = c
  THEN LowerChars[CHOOSE i \in 1..Len(UpperChars) : UpperChars[i] = c]
  ELSE c

LowerStr(s) == [i \in 1..Len(s) |-> LowerChar(s[i])]

\* pat occurs in s as a contiguous substring (case-sensitive)
Contains(s, pat) ==
  \E i \in 0..(Len(s) - Len(pat)) : \A j \in 1..Len(pat) : s[i + j] = pat[j]

\* Series.str.contains(pat, case=False) on one string cell
ContainsNoCase(s, pat) == Contains(LowerStr(s), LowerStr(pat))

\* the missing value of pandas; no string cell equals it
NaN == <<"NaN">>


(* --------------------------- event source ------------------------------ *)
\* A JSON object is a function from its keys; an absent key is absent from
\* the DOMAIN.  dict.get(k, default):
Get(m, k, default) == IF k \in DOMAIN m THEN m[k] ELSE default

\* the {} of event.get('space', {})
EmptyMap == <<>>

\* Events of the /v3/audit_events response.  The optional nested keys are
\* present in some and absent in others; the last event lacks the
\* required 'target' mapping.
Events ==
  { [type |-> T_LoginFailure, created_at |-> V_time,
     target |-> [name |-> V_app, type |-> V_app],
     actor |-> [name |-> V_user, type |-> V_user],
     space |-> [name |-> V_dev], organization |-> [name |-> V_epa]],
    [type |-> T_UnauthorizedDelete, created_at |-> V_time,
     target |-> [type |-> V_app],
     actor |-> [name |-> V_user, type |-> V_user],
     organization |-> [guid |-> V_epa]],
    [type |-> T_update, created_at |-> V_time,
     target |-> [name |-> V_app],
     actor |-> [guid |-> V_user],
     space |-> [guid |-> V_dev]],
    [type |-> T_start, created_at |-> V_time,
     target |-> [name |-> V_app, type |-> V_app],
     actor |-> [name |-> V_sentinel_name, type |-> V_user]],
    [type |-> T_start, created_at |-> V_time,
     actor |-> [name |-> V_user, type |-> V_user]] }

\* the keys an event is subscripted with (event['type'], ...): a missing
\* one raises KeyError
RequiredKeys == {"type", "created_at", "target", "actor"}

ValidEvent(event) == RequiredKeys \subseteq DOMAIN event

ResourceLists == UNION { [1..n -> Events] : n \in 0..MaxEvents }

\* a delimited-text line of the agreed eight columns, and a malformed one
GoodWidth == 8
BadWidth == 3

\* text of n lines whose line number bad (0: none) is malformed
TextWidths(n, bad) == [i \in 1..n |-> IF i = bad THEN BadWidth ELSE GoodWidth]

\* What 'cf curl' prints on stdout, by what json.loads makes of it:
\*   "resources"    a JSON object with a 'resources' list
\*   "no_resources" a JSON object without the 'resources' key
\*   "scalar"       a JSON number, true, false or null
\*   "text"         delimited text (widths: the column count of each line),
\*                  which is not a JSON document
Payloads ==
  { [kind |-> "resources", resources |-> r, widths |-> <<>>] : r \in ResourceLists }
  \cup { [kind |-> "no_resources", resources |-> <<>>, widths |-> <<>>],
         [kind |-> "scalar", resources |-> <<>>, widths |-> <<>>] }
  \cup { [kind |-> "text", resources |-> <<>>, widths |-> TextWidths(n, bad)] :
           n \in 1..MaxTextLines, bad \in 0..1 }
  \cup { [kind |-> "text", resources |-> <<>>, widths |-> TextWidths(MaxTextLines, bad)] :
           bad \in 2..MaxTextLines }

NoPayload == [kind |-> "none", resources |-> <<>>, widths |-> <<>>]

(* ----------------------------- normalizer ------------------------------ *)
\* event['target'].get('name', '') and the like
NestedGet(event, outer, inner) == Get(event[outer], inner, EmptyStr)

\* OptionalNestedGet with .get('name') in place of .get('name', ''): None
OptionalNestedGet_None(event, outer, inner) ==
  Get(Get(event, outer, EmptyMap), inner, NaN)

\* event.get('space', {}).get('name', '')
OptionalNestedGet(event, outer, inner) ==
  Get(Get(event, outer, EmptyMap), inner, EmptyStr)

\* event_dict of one event that has its required keys
NormalizeEvent(event) ==
  [type        |-> event["type"],
   created_at  |-> event["created_at"],
   target_name |-> NestedGet(event, "target", "name"),
   target_type |-> NestedGet(event, "target", "type"),
   actor_name  |-> NestedGet(event, "actor", "name"),
   actor_type  |-> NestedGet(event, "actor", "type"),
   space_name  |-> OptionalNestedGet(event, "space", "name"),
   org_name    |-> OptionalNestedGet(event, "organization", "name")]

\* the loop over events_data['resources']: the list built when no event
\* raises
BuildEventsList(resources) ==
  [i \in 1..Len(resources) |-> NormalizeEvent(resources[i])]

\* the loop raises KeyError at the first event lacking a required key
NormalizeRaises(resources) ==
  \E i \in 1..Len(resources) : ~ValidEvent(resources[i])

(* ------------------------------ CSV files ------------------------------ *)
NoFile == [exists |-> FALSE, lines |-> <<>>]

\* f.write('sep=,\n'): read back as two fields, "sep=" and ""
SepLine == <<S_sep, EmptyStr>>

\* f.write('No events found\n')
NoEventsLine == <<S_No_events_found>>

\* a line without any field
BlankLine == <<>>

ColumnNames ==
  <<S_type, S_created_at, S_target_name, S_target_type,
    S_actor_name, S_actor_type, S_space_name, S_org_name>>

CsvRow(rec) ==
  <<rec.type, rec.created_at, rec.target_name, rec.target_type,
    rec.actor_name, rec.actor_type, rec.space_name, rec.org_name>>

\* pd.DataFrame(events_list).to_csv(f, index=False): a header line and one
\* line per record; a frame without columns writes an empty header line
ToCsv(events) ==
  IF Len(events) = 0 THEN <<BlankLine>>
  ELSE <<ColumnNames>> \o [i \in 1..Len(events) |-> CsvRow(events[i])]

(* ----------------------------- pd.read_csv ----------------------------- *)
Max(a, b) == IF a >= b THEN a ELSE b

Range(f) == { f[i] : i \in DOMAIN f }

\* skip_blank_lines=True
NonBlank(lines) == SelectSeq(lines, LAMBDA l : l # BlankLine)

\* fields that read_csv turns into NaN (some of its default na_values)
NaValues == {EmptyStr, S_NA, S_null}

ReadCell(field) == IF field \in NaValues THEN NaN ELSE field

\* a short line is filled with empty fields up to the table width
Pad(line, width) == line \o [i \in 1..(width - Len(line)) |-> EmptyStr]

\* the name given to a header field that is empty (columns from 0)
Unnamed(i) == S_Unnamed \o <<DigitChars[i + 1]>>

HeaderNames(header) ==
  [i \in 1..Len(header) |->
     IF header[i] = EmptyStr THEN Unnamed(i - 1) ELSE header[i]]

ReadError(e) == [error |-> e, columns |-> <<>>, rows |-> <<>>]

\* pd.read_csv(filename) with its defaults: the first non-blank line is the
\* header, whatever it holds (a 'sep=,' line is not treated specially); the table is as wide as the wider of the
\* header and the first data line; a later line with more fields is an
\* error; when the data is wider than the header the leading fields become
\* the index and the trailing ones the columns.
read_csv(file) ==
  LET lines == NonBlank(file.lines) IN
  IF ~file.exists THEN ReadError("FileNotFoundError")
  ELSE IF Len(lines) = 0 THEN ReadError("EmptyDataError")
  ELSE
    LET header  == Head(lines)
        data    == Tail(lines)
        width   == IF Len(data) = 0 THEN Len(header)
                   ELSE Max(Len(header), Len(data[1]))
        leading == width - Len(header)
    IN IF \E k \in 2..Len(data) : Len(data[k]) > width
       THEN ReadError("ParserError")
       ELSE [error   |-> "none",
             columns |-> HeaderNames(header),
             rows    |-> [k \in 1..Len(data) |->
                            [c \in 1..Len(header) |->
                               ReadCell(Pad(data[k], width)[leading + c])]]]

(* -------------------------- process_audit_logs ------------------------- *)
StatusNoEvents == "No events found in the specified time range"
StatusProcessed == "Events found and processed"

Summary(total, failed, unauthorized, suspicious, status) ==
  [Date |-> "today", total_events |-> total, failed_logins |-> failed,
   unauthorized_access |-> unauthorized, suspicious_activities |-> suspicious,
   status |-> status]

NoSummary == Summary(0, 0, 0, 0, "none")

Report(e, summary, stages) == [error |-> e, summary |-> summary, stages |-> stages]

\* a Series of missing values only has no .str accessor (AttributeError)
AllNaN(cells) == \A i \in 1..Len(cells) : cells[i] = NaN

\* df.iloc[0].str.contains('No events found').any()
RowContains(cells, pat) ==
  \E i \in 1..Len(cells) : cells[i] # NaN /\ Contains(cells[i], pat)

\* IsNoEvents without its df.empty test
IsNoEvents_SentinelOnly(df) ==
  Len(df.rows) = 1 /\ RowContains(df.rows[1], S_No_events_found)

\* df.empty or (len(df) == 1 and <the row holds 'No events found'>), where
\* the frame is not one row of missing values only
IsNoEvents(df) ==
  \/ Len(df.rows) = 0
  \/ Len(df.rows) = 1 /\ RowContains(df.rows[1], S_No_events_found)

\* df['type']
Column(df, name) ==
  LET c == CHOOSE i \in 1..Len(df.columns) : df.columns[i] = name
  IN [k \in 1..Len(df.rows) |-> df.rows[k][c]]

\* len(df[df['type'].str.contains(p1, na=False, case=False) | ...])
CountMatching(col, pats) ==
  Cardinality({ k \in 1..Len(col) :
                  col[k] # NaN /\ \E p \in pats : ContainsNoCase(col[k], p) })

SuspiciousPatterns == {S_Delete, S_Update, S_Create}

\* The body of process_audit_logs up to processed_df, on the frame read
\* from the export: the report, or the exception that the handler wraps
\* into RuntimeError; stages lists the steps that were entered.
BuildReport(df) ==
  IF df.error # "none" THEN Report(df.error, NoSummary, <<>>)
  ELSE IF Len(df.rows) = 1 /\ AllNaN(df.rows[1])
    THEN Report("AttributeError", NoSummary, <<>>)
  ELSE IF IsNoEvents(df)
    THEN Report("none", Summary(0, 0, 0, 0, StatusNoEvents), <<"build_summary">>)
  ELSE IF S_type \notin Range(df.columns)
    THEN Report("KeyError", NoSummary, <<"classify">>)
  ELSE IF AllNaN(Column(df, S_type))
    THEN Report("AttributeError", NoSummary, <<"classify">>)
  ELSE
    LET col == Column(df, S_type) IN
    Report("none",
           Summary(Len(df.rows),
                   CountMatching(col, {S_LoginFailure}),
                   CountMatching(col, {S_Unauthorized}),
                   CountMatching(col, SuspiciousPatterns),
                   StatusProcessed),
           <<"classify", "build_summary">>)

(* ------------------------------ the run -------------------------------- *)
VARIABLES
  pc,           \* position of main: the call it is about to make
  exc,          \* the exception propagating to main's handler, or "none"
  cliStatus,    \* outcome of 'cf --version'
  username,     \* os.environ.get('CF_USERNAME')
  password,     \* os.environ.get('CF_PASSWORD')
  loginIssued,  \* the 'cf login' command has been run
  loginStatus,  \* outcome of 'cf login'
  fetchResult,  \* outcome of 'cf curl /v3/audit_events'
  payload,      \* its stdout
  events_list,  \* the normalized records
  exportFile,   \* exports/Events_<date>.csv
  summaryFile,  \* exports/Events_<date>_processed.csv
  exited,       \* the process has ended
  exitCode,     \* its exit status
  trace         \* the pipeline stages executed so far, in order

vars == <<pc, exc, cliStatus, username, password, loginIssued, loginStatus,
          fetchResult, payload, events_list, exportFile, summaryFile,
          exited, exitCode, trace>>

\* os.environ.get: None when the variable is unset
Unset == "<unset>"
EnvValues == {Unset, "", "secret"}

\* 'not username'
Falsy(v) == v = Unset \/ v = ""

Init ==
  /\ pc = "check_cf_cli"
  /\ exc = "none"
  /\ cliStatus = "none"
  /\ username = Unset
  /\ password = Unset
  /\ loginIssued = FALSE
  /\ loginStatus = "none"
  /\ fetchResult = "none"
  /\ payload = NoPayload
  /\ events_list = <<>>
  /\ exportFile = NoFile
  /\ summaryFile = NoFile
  /\ exited = FALSE
  /\ exitCode = 0
  /\ trace = <<>>

\* an exception leaves the try block of main, after the stages entered
Raise(e, stages) ==
  /\ exc' = e
  /\ pc' = "except"
  /\ trace' = trace \o stages \o <<"abort">>

\* the call returns and main goes on to the next one
Goto(next, stages) ==
  /\ pc' = next
  /\ exc' = exc
  /\ trace' = trace \o stages

\* check_cf_cli(): both failures of 'cf --version' become RuntimeError
check_cf_cli ==
  /\ pc = "check_cf_cli"
  /\ \E r \in {"ok", "CalledProcessError", "FileNotFoundError"} :
       /\ cliStatus' = r
       /\ IF r = "ok" THEN Goto("login", <<>>)
          ELSE Raise("RuntimeError", <<>>)
  /\ UNCHANGED <<username, password, loginIssued, loginStatus, fetchResult,
                 payload, events_list, exportFile, summaryFile, exited,
                 exitCode>>

\* CredentialsPresent with 'and' in place of 'or'
CredentialsPresent_Either(u, p) == ~(Falsy(u) /\ Falsy(p))

\* 'if not username or not password: raise': the credentials with which
\* 'cf login' is run
CredentialsPresent(u, p) == ~(Falsy(u) \/ Falsy(p))

\* login_to_cloudgov()
login_to_cloudgov ==
  /\ pc = "login"
  /\ \E u \in EnvValues, p \in EnvValues :
       /\ username' = u
       /\ password' = p
       /\ IF ~CredentialsPresent(u, p)
          THEN /\ Raise("ValueError", <<>>)
               /\ UNCHANGED <<loginIssued, loginStatus>>
          ELSE /\ loginIssued' = TRUE
               /\ \E r \in {"ok", "CalledProcessError"} :
                    /\ loginStatus' = r
                    /\ IF r = "ok" THEN Goto("get_open", <<>>)
                       ELSE Raise("RuntimeError", <<>>)
  /\ UNCHANGED <<cliStatus, fetchResult, payload, events_list, exportFile,
                 summaryFile, exited, exitCode>>

\* what open(filename, 'w') and f.write('sep=,\n') leave in the export
OpenedExport == [exists |-> TRUE, lines |-> <<SepLine>>]

\* get_audit_logs(), first step: the export is opened for writing and the
\* separator line written, before the events are requested; an IOError of
\* open() is re-raised
get_audit_logs_open ==
  /\ pc = "get_open"
  /\ \/ exportFile' = OpenedExport /\ Goto("get_fetch", <<>>)
     \/ exportFile' = exportFile /\ Raise("IOError", <<>>)
  /\ UNCHANGED <<cliStatus, username, password, loginIssued, loginStatus,
                 fetchResult, payload, events_list, summaryFile, exited,
                 exitCode>>

\* the exception get_audit_logs raises for a failure of 'cf curl': a
\* CalledProcessError becomes RuntimeError, an OSError is re-raised
FetchException(r) == IF r = "CalledProcessError" THEN "RuntimeError" ELSE r

\* get_audit_logs(), second step: 'cf curl' is run once; its failure closes
\* the export as it is
get_audit_logs_fetch ==
  /\ pc = "get_fetch"
  /\ \/ \E p \in Payloads :
          /\ fetchResult' = "ok"
          /\ payload' = p
          /\ Goto("get_parse", <<"fetch">>)
     \/ \E r \in {"CalledProcessError", "FileNotFoundError"} :
          /\ fetchResult' = r
          /\ payload' = payload
          /\ Raise(FetchException(r), <<"fetch">>)
  /\ UNCHANGED <<cliStatus, username, password, loginIssued, loginStatus,
                 events_list, exportFile, summaryFile, exited, exitCode>>

\* ParseOutcome when a JSONDecodeError is logged and not raised
ParseOutcome_TextAsNoEvents(p) ==
  CASE p.kind = "scalar" -> "TypeError"
    [] p.kind = "resources" /\ NormalizeRaises(p.resources) -> "KeyError"
    [] OTHER -> "none"

\* json.loads(result.stdout) and the loop over the resources: the
\* exception raised before anything is written, or "none".  A
\* JSONDecodeError becomes RuntimeError; ('resources' in <scalar>) is a
\* TypeError.
ParseOutcome(p) ==
  CASE p.kind = "text" -> "RuntimeError"
    [] p.kind = "scalar" -> "TypeError"
    [] p.kind = "resources" /\ NormalizeRaises(p.resources) -> "KeyError"
    [] OTHER -> "none"

\* the lines the export holds when get_audit_logs returns
ExportLines(p) ==
  IF p.kind = "resources"
  THEN <<SepLine>> \o ToCsv(BuildEventsList(p.resources))
  ELSE <<SepLine, NoEventsLine>>

\* get_audit_logs(), last step: the response is parsed and normalized and
\* the records (or the 'No events found' line) written to the export
get_audit_logs_parse ==
  /\ pc = "get_parse"
  /\ IF ParseOutcome(payload) # "none"
     THEN /\ Raise(ParseOutcome(payload), <<"normalize">>)
          /\ UNCHANGED <<events_list, exportFile>>
     ELSE /\ events_list' = IF payload.kind = "resources"
                            THEN BuildEventsList(payload.resources) ELSE <<>>
          /\ exportFile' = [exists |-> TRUE, lines |-> ExportLines(payload)]
          /\ Goto("process", <<"normalize", "persist_dataset">>)
  /\ UNCHANGED <<cliStatus, username, password, loginIssued, loginStatus,
                 fetchResult, payload, summaryFile, exited, exitCode>>

\* process_audit_logs(filename): the export is read back, the report built
\* and saved; any exception becomes RuntimeError
process_audit_logs ==
  /\ pc = "process"
  /\ LET report == BuildReport(read_csv(exportFile)) IN
     IF report.error # "none"
     THEN /\ Raise("RuntimeError", report.stages)
          /\ summaryFile' = summaryFile
     ELSE /\ summaryFile' = [exists |-> TRUE, lines |-> <<report.summary>>]
          /\ Goto("return", report.stages \o <<"persist_summary">>)
  /\ UNCHANGED <<cliStatus, username, password, loginIssued, loginStatus,
                 fetchResult, payload, events_list, exportFile, exited,
                 exitCode>>

\* the fetch has failed, and has been made only once
SourceFailedOnce ==
  /\ fetchResult \in {"CalledProcessError", "FileNotFoundError"}
  /\ Cardinality({ i \in 1..Len(trace) : trace[i] = "fetch" }) = 1

\* main_except when a failed fetch is tried once more
main_except_retry ==
  /\ pc = "except"
  /\ IF SourceFailedOnce
     THEN /\ pc' = "get_fetch"
          /\ exc' = "none"
          /\ UNCHANGED <<exited, exitCode>>
     ELSE /\ pc' = "done"
          /\ exc' = exc
          /\ exited' = TRUE
          /\ exitCode' = 1
  /\ UNCHANGED <<cliStatus, username, password, loginIssued, loginStatus,
                 fetchResult, payload, events_list, exportFile, summaryFile,
                 trace>>

\* main(): except Exception -> sys.exit(1)
main_except ==
  /\ pc = "except"
  /\ exited' = TRUE
  /\ exitCode' = 1
  /\ pc' = "done"
  /\ UNCHANGED <<exc, cliStatus, username, password, loginIssued, loginStatus,
                 fetchResult, payload, events_list, exportFile, summaryFile,
                 trace>>

\* main() returns and the interpreter exits with status 0
main_return ==
  /\ pc = "return"
  /\ exited' = TRUE
  /\ exitCode' = 0
  /\ pc' = "done"
  /\ UNCHANGED <<exc, cliStatus, username, password, loginIssued, loginStatus,
                 fetchResult, payload, events_list, exportFile, summaryFile,
                 trace>>

Next ==
  \/ check_cf_cli
  \/ login_to_cloudgov
  \/ get_audit_logs_open
  \/ get_audit_logs_fetch
  \/ get_audit_logs_parse
  \/ process_audit_logs
  \/ main_except
  \/ main_return

Spec == Init /\ [][Next]_vars

(* ------------------------------ properties ------------------------------ *)
Summarised == summaryFile.exists
TheSummary == summaryFile.lines[1]

\* the event source failed: 'cf curl' could not be run or returned an error
SourceFailed == fetchResult \in {"CalledProcessError", "FileNotFoundError"}

\* the source answered with a list of events that all have their required
\* keys, and the normalization step has run
ValidBatch ==
  /\ fetchResult = "ok"
  /\ payload.kind = "resources"
  /\ \A i \in 1..Len(payload.resources) : ValidEvent(payload.resources[i])
  /\ "normalize" \in Range(trace)

NonEmptyBatch == ValidBatch /\ Len(payload.resources) >= 1

\* the source answered with no event at all
ZeroEvents ==
  /\ fetchResult = "ok"
  /\ \/ payload.kind = "no_resources"
     \/ payload.kind = "resources" /\ Len(payload.resources) = 0

\* the positions of trace holding a given stage
Occurrences(stage) == { i \in 1..Len(trace) : trace[i] = stage }

\* C1: after a failure of the event source neither the export nor the
\* summary exists, not even partially written.
C1_NoOutputAfterSourceFailure ==
  SourceFailed => ~exportFile.exists /\ ~Summarised

\* C2: a run over a non-empty batch ends with a summary whose status is
\* Processed, never the no-events status.
C2_NonEmptyBatchProcessed ==
  (pc = "done" /\ NonEmptyBatch) =>
     Summarised /\ TheSummary.status = StatusProcessed

\* C3: a source that yields zero events is no error: nothing is raised, the
\* summary step is completed, and the run ends with status 0 and exactly
\* one summary, all counts 0 and status NoEventsFound.
C3_ZeroEventsRun ==
  ZeroEvents =>
    /\ exc = "none"
    /\ pc \in {"return", "done"} =>
         /\ "build_summary" \in Range(trace)
         /\ Cardinality(Occurrences("persist_summary")) = 1
         /\ summaryFile = [exists |-> TRUE,
                           lines |-> <<Summary(0, 0, 0, 0, StatusNoEvents)>>]
    /\ pc = "done" => exited /\ exitCode = 0

C3_Witness ==
  /\ ZeroEvents
  /\ payload.kind = "resources"
  /\ pc = "done"
  /\ Summarised
  /\ TheSummary.status = StatusNoEvents

\* the events of the batch whose type holds one of the patterns
Matching(pats) ==
  { i \in 1..Len(payload.resources) :
      \E q \in pats : ContainsNoCase(payload.resources[i].type, q) }

\* C4: the summary of a non-empty batch counts, per category, the events
\* whose type holds the category's pattern, each event in every category it
\* matches.
C4_CategoryCounts ==
  (pc = "done" /\ NonEmptyBatch) =>
     /\ Summarised
     /\ TheSummary.failed_logins = Cardinality(Matching({S_LoginFailure}))
     /\ TheSummary.unauthorized_access = Cardinality(Matching({S_Unauthorized}))
     /\ TheSummary.suspicious_activities = Cardinality(Matching(SuspiciousPatterns))

\* C5: n valid events give n records, in source order, and a summary whose
\* total_events is n.
C5_OneRecordPerEvent ==
  (pc = "done" /\ ValidBatch) =>
     /\ Len(events_list) = Len(payload.resources)
     /\ \A i \in 1..Len(events_list) :
          /\ events_list[i].type = payload.resources[i].type
          /\ events_list[i].created_at = payload.resources[i].created_at
     /\ Summarised
     /\ TheSummary.total_events = Len(payload.resources)

\* the nested key is absent from the event
Missing(event, outer, inner) ==
  outer \notin DOMAIN event \/ inner \notin DOMAIN event[outer]

\* C6: normalizing valid events never raises for an absent optional nested
\* key; the record is emitted (in the list and in the export) with the
\* empty string in the field of each absent key.
C6_MissingKeysEmpty ==
  ValidBatch =>
    /\ exc = "none" \/ "persist_dataset" \in Range(trace)
    /\ Len(events_list) = Len(payload.resources)
    /\ \A i \in 1..Len(payload.resources) :
         LET e == payload.resources[i]
             r == events_list[i]
         IN /\ Missing(e, "target", "name") => r.target_name = EmptyStr
            /\ Missing(e, "target", "type") => r.target_type = EmptyStr
            /\ Missing(e, "actor", "name") => r.actor_name = EmptyStr
            /\ Missing(e, "actor", "type") => r.actor_type = EmptyStr
            /\ Missing(e, "space", "name") => r.space_name = EmptyStr
            /\ Missing(e, "organization", "name") => r.org_name = EmptyStr
            /\ exportFile.lines[i + 2] = CsvRow(r)

C6_Witness ==
  /\ ValidBatch
  /\ \E i \in 1..Len(payload.resources) :
       /\ "space" \notin DOMAIN payload.resources[i]
       /\ "organization" \in DOMAIN payload.resources[i]
       /\ "name" \notin DOMAIN payload.resources[i].organization
       /\ "name" \notin DOMAIN payload.resources[i].target
       /\ events_list[i].space_name = EmptyStr
       /\ events_list[i].org_name = EmptyStr
       /\ events_list[i].target_name = EmptyStr

\* the source answered with something json.loads cannot parse
Unparseable == fetchResult = "ok" /\ payload.kind = "text"

\* C7: an unparseable payload aborts the run before classification: the
\* processing stage is never entered, no summary is written, and the run
\* ends with a non-zero status.
C7_UnparseableAborts ==
  Unparseable =>
    /\ pc \in {"get_parse", "except", "done"}
    /\ "classify" \notin Range(trace) /\ "build_summary" \notin Range(trace)
    /\ ~Summarised
    /\ pc = "done" => exited /\ exitCode # 0

C7_Witness ==
  /\ Unparseable
  /\ pc = "done"
  /\ exitCode = 1
  /\ trace = <<"fetch", "normalize", "abort">>

\* the well-formed lines of a delimited-text payload
GoodLines == { i \in 1..Len(payload.widths) : payload.widths[i] = GoodWidth }

\* C8: a delimited-text payload with one malformed line does not abort the
\* run: the malformed line is dropped, the other lines are the records of
\* the export, and the run completes with a summary.
C8_MalformedLineDropped ==
  (pc = "done" /\ Unparseable
      /\ Cardinality(GoodLines) = Len(payload.widths) - 1) =>
     /\ exitCode = 0
     /\ Len(events_list) = Cardinality(GoodLines)
     /\ Summarised

\* trace is strictly increasing under rank: the stages run in the order of
\* their ranks, each at most once
Ordered(rank) ==
  \A i, j \in 1..Len(trace) : i < j => rank[trace[i]] < rank[trace[j]]

\* the order of the specification: persisting comes last
SpecRank ==
  [fetch |-> 1, normalize |-> 2, classify |-> 3, build_summary |-> 4,
   persist_dataset |-> 5, persist_summary |-> 5, abort |-> 6]

\* the order of the script: the normalized dataset is persisted before it
\* is classified
CodeRank ==
  [fetch |-> 1, normalize |-> 2, persist_dataset |-> 3, classify |-> 4,
   build_summary |-> 5, persist_summary |-> 6, abort |-> 7]

\* once a stage has failed the run can only end
NoStageAfterFailure == exc # "none" => pc \in {"except", "done"}

LoggedIn ==
  /\ cliStatus = "ok"
  /\ ~Falsy(username) /\ ~Falsy(password)
  /\ loginStatus = "ok"

\* C10: the fetch is attempted only after the CLI check and the login
\* succeeded; with a credential unset or empty no login command is issued;
\* a run that fails before the fetch writes no file and exits with 1.
C10_FetchOnlyAfterLogin ==
  /\ (fetchResult # "none" \/ "fetch" \in Range(trace)) => LoggedIn
  /\ (Falsy(username) \/ Falsy(password)) => ~loginIssued
  /\ (pc \in {"except", "done"} /\ ~LoggedIn) =>
       /\ fetchResult = "none"
       /\ ~exportFile.exists /\ ~Summarised
       /\ pc = "done" => exited /\ exitCode = 1

C10_Witness ==
  /\ pc = "done"
  /\ cliStatus = "ok"
  /\ username = "secret" /\ password = ""
  /\ ~loginIssued
  /\ exitCode = 1

====
